----------------------------- MODULE Spec2Model -----------------------------
(***************************************************************************)
(* Blue-green reconciliation core of the rollout controller                *)
(* (controller/bluegreen.go).  One reconciliation pass, rolloutBlueGreen,  *)
(* is modelled as a sequential program: every collaborator call of the     *)
(* pass is one step, `pc' is the position of the pass in the code, and     *)
(* `calls' is the list of collaborator calls the pass has made so far.     *)
(* Between passes (pc = "idle") the cluster runtime, the user and the      *)
(* verification signal change the observed state.                          *)
(***************************************************************************)
EXTENDS Integers, Sequences, FiniteSets

(***************************************************************************)
(* Bounds of the model.                                                    *)
(***************************************************************************)
MaxReplicas == 2
NumOld == 2

Counts == 0..MaxReplicas
OldIds == 1..NumOld

VARIABLES
    rollout,          \* [replicas, previewService, verifyingPreview]
    newRS,            \* the new replica set: [replicas, available]
    oldStore,         \* the old replica sets, by id: [replicas, available]
    previewSel,       \* what the preview service's selector is bound to
    activeSel,        \* what the active service's selector is bound to
    pc,               \* position of the running pass, "idle" between passes
    oldRSs,           \* the pass's working slice of old replica sets
    idx,              \* loop index of the range loops over oldRSs
    cleanupCount,     \* totalScaledDown of cleanupUnhealthyReplicas
    scaledDownCount,  \* totalScaledDown of scaleDownOldReplicaSetsForBlueGreen
    calls,            \* the running pass's collaborator calls, in order, with the
                      \* returns of its two old-group steps (op = "return")
    result,           \* what rolloutBlueGreen returns: "pending", "nil" or an error
    prevRun           \* "none", or how the pass just before this one ended (SpecTwice)

vars == <<rollout, newRS, oldStore, previewSel, activeSel, pc, oldRSs, idx,
          cleanupCount, scaledDownCount, calls, result, prevRun>>

cluster == <<rollout, newRS, oldStore, previewSel, activeSel>>
locals == <<oldRSs, idx, cleanupCount, scaledDownCount>>

(***************************************************************************)
(* Values.                                                                 *)
(***************************************************************************)
SelectorValues == {"none", "old", "new"}   \* no revision key / another revision / the new revision
TriState == {"nil", "true", "false"}       \* *bool
PreviewNames == {"", "preview"}

NoErr == "nil"

\* One entry of the call list.  rs = 0 names the new replica set.
Call(op, step, rs, from, to, avail, changed, err) ==
    [op |-> op, step |-> step, rs |-> rs, from |-> from, to |-> to,
     avail |-> avail, changed |-> changed, err |-> err]

SimpleCall(op, changed, err) == Call(op, op, 0, 0, 0, 0, changed, err)

\* The replica set object a pass holds for old replica set id.  The creation
\* timestamps of the old replica sets are distinct; id i was created at time i.
Snapshot(id) ==
    [id |-> id, replicas |-> oldStore[id].replicas, available |-> oldStore[id].available]

CreationTimestamp(rs) == rs.id

RECURSIVE SumOver(_, _)
SumOver(f, S) ==
    IF S = {} THEN 0
    ELSE LET x == CHOOSE y \in S : TRUE IN f[x] + SumOver(f, S \ {x})

(***************************************************************************)
(* Helpers of other packages, as bluegreen.go uses them.                   *)
(***************************************************************************)
\* defaults.GetRolloutReplicasOrDefault
GetRolloutReplicasOrDefault(r) == r.replicas

\* replicasetutil.GetReplicaCountForReplicaSets: the sum of spec.replicas
GetReplicaCountForReplicaSets(rss) ==
    SumOver([k \in DOMAIN rss |-> rss[k].replicas], DOMAIN rss)

\* replicasetutil.GetAvailableReplicaCountForReplicaSets: the sum of status.availableReplicas
GetAvailableReplicaCountForReplicaSets(rss) ==
    SumOver([k \in DOMAIN rss |-> rss[k].available], DOMAIN rss)

\* controller.FilterActiveReplicaSets: the replica sets that ought to have pods
FilterActiveReplicaSets(rss) == SelectSeq(rss, LAMBDA rs : rs.replicas > 0)

\* annotations.IsSaturated: the replica set runs, and has available, every
\* replica the rollout asks for
IsSaturated(r, rs) ==
    /\ rs.replicas = GetRolloutReplicasOrDefault(r)
    /\ rs.available = GetRolloutReplicasOrDefault(r)

\* sort.Sort(controller.ReplicaSetsByCreationTimestamp(rss)): oldest first
RECURSIVE Insert(_, _)
Insert(rs, sorted) ==
    IF sorted = <<>> THEN <<rs>>
    ELSE IF CreationTimestamp(rs) < CreationTimestamp(Head(sorted))
         THEN <<rs>> \o sorted
         ELSE <<Head(sorted)>> \o Insert(rs, Tail(sorted))

RECURSIVE ReplicaSetsByCreationTimestamp(_)
ReplicaSetsByCreationTimestamp(rss) ==
    IF rss = <<>> THEN <<>>
    ELSE Insert(Head(rss), ReplicaSetsByCreationTimestamp(Tail(rss)))

\* scaleReplicaSetAndRecordEvent, when the update succeeds: a no-op on a replica
\* set already at the count, else the replica set with the new count
ScaleChanged(rs, newScale) == rs.replicas # newScale
ScaleUpdated(rs, newScale) == [rs EXCEPT !.replicas = newScale]

\* replicasetutil.NewRSNewReplicas: the counts the ramp function may answer
\* for an under-provisioned new replica set
NewRSNewReplicas(r, rs) == (rs.replicas + 1)..GetRolloutReplicasOrDefault(r)

\* getPreviewAndActiveServices: the preview service is nil when none is configured
PreviewSvcIsNil == rollout.previewService = ""

\* reconcilePreviewService / reconcileActiveService: a selector is
\* repointed when it is not bound to the new replica set's revision
NeedsSwitch(sel) == sel # "new"

(***************************************************************************)
(* Initial states: any observed cluster state, no pass running.            *)
(***************************************************************************)
AllOrders ==
    {o \in [OldIds -> OldIds] : \A a, b \in OldIds : a # b => o[a] # o[b]}

Init ==
    /\ rollout \in [replicas : Counts, previewService : PreviewNames,
                    verifyingPreview : TriState]
    /\ newRS \in [replicas : Counts, available : Counts]
    /\ oldStore \in [OldIds -> [replicas : Counts, available : Counts]]
    /\ previewSel \in SelectorValues
    /\ (rollout.previewService = "" => previewSel = "none")
    /\ activeSel \in SelectorValues
    /\ pc = "idle"
    /\ oldRSs = <<>>
    /\ idx = 0
    /\ cleanupCount = 0
    /\ scaledDownCount = 0
    /\ calls = <<>>
    /\ result = "pending"
    /\ prevRun = "none"

(***************************************************************************)
(* rolloutBlueGreen                                                        *)
(***************************************************************************)
\* A pass ends with an error: rolloutBlueGreen returns err.
Fail(log, call) ==
    /\ calls' = Append(log, call)
    /\ result' = call.err
    /\ pc' = "done"

\* line 23: newRS, oldRSs, err := c.getAllReplicaSetsAndSyncRevision(r, rsList, true)
getAllReplicaSetsAndSyncRevision ==
    /\ pc = "idle"
    /\ \/ Fail(<<>>, SimpleCall("syncRevision", FALSE, "ErrSyncRevision"))
       \/ /\ calls' = <<SimpleCall("syncRevision", FALSE, NoErr)>>
          /\ pc' = "getServices"
          /\ UNCHANGED result
    /\ UNCHANGED <<cluster, locals, prevRun>>

\* line 27: previewSvc, activeSvc, err := c.getPreviewAndActiveServices(r)
getPreviewAndActiveServices ==
    /\ pc = "getServices"
    /\ \/ Fail(calls, SimpleCall("getServices", FALSE, "ErrServices"))
       \/ /\ calls' = Append(calls, SimpleCall("getServices", FALSE, NoErr))
          /\ pc' = "reconcileNew"
          /\ UNCHANGED result
    /\ UNCHANGED <<cluster, locals, prevRun>>

\* lines 38-42, 57: after reconcileNewReplicaSet returned scaledUp
AfterNew(scaledUp) ==
    IF scaledUp THEN "syncStatus"
    ELSE IF PreviewSvcIsNil THEN "activeService" ELSE "previewService"

\* lines 47-51: after reconcilePreviewService returned switchPreviewSvc
AfterPreview(switchPreviewSvc) ==
    IF switchPreviewSvc THEN "syncStatus" ELSE "verifyingPreview"

\* (mutant) line 53 returns without the status sync
AfterGate_NoSync(verfyingPreview) ==
    IF verfyingPreview THEN "done" ELSE "activeService"

\* lines 52-57: after reconcileVerifyingPreview returned verfyingPreview
AfterGate(verfyingPreview) ==
    IF verfyingPreview THEN "syncStatus" ELSE "activeService"

\* (mutant) lines 61-63 left out: the pass goes on after the active switch
AfterActive_NoStop(switchActiveSvc) == "reconcileOld"

\* lines 61-65: after reconcileActiveService returned switchActiveSvc
AfterActive(switchActiveSvc) ==
    IF switchActiveSvc THEN "syncStatus" ELSE "reconcileOld"

\* (mutant) lines 106 and 113 return false instead of the scaled flag
ScaleNew_Unreported(log, n) ==
    \/ /\ Fail(log, Call("scale", "new", 0, newRS.replicas, n, newRS.available, FALSE, "ErrScale"))
       /\ UNCHANGED newRS
    \/ /\ newRS' = ScaleUpdated(newRS, n)
       /\ calls' = Append(log, Call("scale", "new", 0, newRS.replicas, n, newRS.available,
                                    ScaleChanged(newRS, n), NoErr))
       /\ pc' = AfterNew(FALSE)
       /\ UNCHANGED result

\* lines 105-106, 112-113: scaled, _, err := c.scaleReplicaSetAndRecordEvent(newRS, n, rollout)
\* and lines 35-40 of the caller
ScaleNew(log, n) ==
    \/ /\ Fail(log, Call("scale", "new", 0, newRS.replicas, n, newRS.available, FALSE, "ErrScale"))
       /\ UNCHANGED newRS
    \/ /\ newRS' = ScaleUpdated(newRS, n)
       /\ calls' = Append(log, Call("scale", "new", 0, newRS.replicas, n, newRS.available,
                                    ScaleChanged(newRS, n), NoErr))
       /\ pc' = AfterNew(ScaleChanged(newRS, n))
       /\ UNCHANGED result

\* lines 97-114, called at line 34
reconcileNewReplicaSet ==
    /\ pc = "reconcileNew"
    /\ LET rolloutReplicas == GetRolloutReplicasOrDefault(rollout) IN
       \/ /\ newRS.replicas = rolloutReplicas
          /\ pc' = AfterNew(FALSE)
          /\ UNCHANGED <<newRS, calls, result>>
       \/ /\ newRS.replicas > rolloutReplicas
          /\ ScaleNew(calls, rolloutReplicas)
       \/ /\ newRS.replicas < rolloutReplicas
          /\ \/ /\ Fail(calls, SimpleCall("ramp", FALSE, "ErrRamp"))
                /\ UNCHANGED newRS
             \/ \E n \in NewRSNewReplicas(rollout, newRS) :
                    ScaleNew(Append(calls, Call("ramp", "ramp", 0, newRS.replicas, n,
                                                newRS.available, FALSE, NoErr)), n)
    /\ UNCHANGED <<rollout, oldStore, previewSel, activeSel, locals, prevRun>>

\* lines 43-49: switchPreviewSvc, err := c.reconcilePreviewService(...)
reconcilePreviewService ==
    /\ pc = "previewService"
    /\ \/ /\ Fail(calls, SimpleCall("previewCutover", FALSE, "ErrPreviewCutover"))
          /\ UNCHANGED previewSel
       \/ /\ previewSel' = IF NeedsSwitch(previewSel) THEN "new" ELSE previewSel
          /\ calls' = Append(calls, SimpleCall("previewCutover", NeedsSwitch(previewSel), NoErr))
          /\ pc' = AfterPreview(NeedsSwitch(previewSel))
          /\ UNCHANGED result
    /\ UNCHANGED <<rollout, newRS, oldStore, activeSel, locals, prevRun>>

\* (mutant) line 94 returns the negated flag
reconcileVerifyingPreview_Negated(activeSelector, r) ==
    IF r.previewService = "" THEN FALSE
    ELSE IF activeSelector = "none" THEN FALSE
    ELSE IF r.verifyingPreview = "nil" THEN FALSE
    ELSE r.verifyingPreview # "true"

\* (mutant) line 90 left out: an absent status.verifyingPreview holds the gate
reconcileVerifyingPreview_NilHolds(activeSelector, r) ==
    IF r.previewService = "" THEN FALSE
    ELSE IF activeSelector = "none" THEN FALSE
    ELSE r.verifyingPreview # "false"

\* lines 82-95
reconcileVerifyingPreview(activeSelector, r) ==
    IF r.previewService = "" THEN FALSE
    ELSE IF activeSelector = "none" THEN FALSE
    ELSE IF r.verifyingPreview = "nil" THEN FALSE
    ELSE r.verifyingPreview = "true"

\* lines 51-54
VerifyGate ==
    /\ pc = "verifyingPreview"
    /\ LET verfyingPreview == reconcileVerifyingPreview(activeSel, rollout) IN
       /\ calls' = Append(calls, SimpleCall("verifyGate", verfyingPreview, NoErr))
       /\ pc' = AfterGate(verfyingPreview)
    /\ UNCHANGED <<cluster, locals, result, prevRun>>

\* lines 57-63: switchActiveSvc, err := c.reconcileActiveService(...)
reconcileActiveService ==
    /\ pc = "activeService"
    /\ \/ /\ Fail(calls, SimpleCall("activeCutover", FALSE, "ErrActiveCutover"))
          /\ UNCHANGED activeSel
       \/ /\ activeSel' = IF NeedsSwitch(activeSel) THEN "new" ELSE activeSel
          /\ calls' = Append(calls, SimpleCall("activeCutover", NeedsSwitch(activeSel), NoErr))
          /\ pc' = AfterActive(NeedsSwitch(activeSel))
          /\ UNCHANGED result
    /\ UNCHANGED <<rollout, newRS, oldStore, previewSel, locals, prevRun>>

\* (mutant) lines 69-71 left out: the pass goes on to the cleanup after a scale-down
AfterOld_NoStop(log, scaledDown, err) ==
    /\ calls' = Append(log, Call("return", "old", 0, 0, 0, 0, scaledDown, err))
    /\ IF err # NoErr THEN /\ result' = err
                           /\ pc' = "done"
       ELSE /\ pc' = "rolloutComplete"
            /\ UNCHANGED result

\* lines 66-71: what rolloutBlueGreen does with the (scaledDown, err) that
\* reconcileOldReplicaSets returns; the return is entered in the call list
AfterOld(log, scaledDown, err) ==
    /\ calls' = Append(log, Call("return", "old", 0, 0, 0, 0, scaledDown, err))
    /\ IF err # NoErr THEN /\ result' = err
                           /\ pc' = "done"
       ELSE /\ pc' = IF scaledDown THEN "syncStatus" ELSE "rolloutComplete"
            /\ UNCHANGED result

\* lines 131-134: what reconcileOldReplicaSets returns when cleanupUnhealthyReplicas fails
OnEvictionError(err) == [scaledDown |-> FALSE, err |-> NoErr]

\* lines 139-142: what reconcileOldReplicaSets returns when
\* scaleDownOldReplicaSetsForBlueGreen fails
OnScaleDownError(err) == [scaledDown |-> FALSE, err |-> NoErr]

\* (mutant) the sort of line 151 left out: eviction takes the slice as it comes
SortForEviction_NoSort(rss) == rss

\* line 151 and line 191: sort.Sort(controller.ReplicaSetsByCreationTimestamp(oldRSs))
SortForEviction(rss) == ReplicaSetsByCreationTimestamp(rss)
SortForScaleDown(rss) == ReplicaSetsByCreationTimestamp(rss)

\* (mutant) the saturation check of line 124 left out
CanScaleDownOld_NoSaturation(oldPodsCount, r, rs) == oldPodsCount # 0

\* (mutant) the condition of line 124 inverted
CanScaleDownOld_Inverted(oldPodsCount, r, rs) == oldPodsCount # 0 /\ ~IsSaturated(r, rs)

\* lines 117-126: reconcileOldReplicaSets goes on to scale old replica sets down
CanScaleDownOld(oldPodsCount, r, rs) == oldPodsCount # 0 /\ IsSaturated(r, rs)

\* (mutant) the check of lines 169-171 left out
InvalidScaleDown_Unchecked(targetRS, newReplicasCount) == FALSE

\* line 169: the request would scale the replica set up
InvalidScaleDown(targetRS, newReplicasCount) == newReplicasCount > targetRS.replicas

\* (mutant) lines 187 and 210 both return 0: the step always reports nothing scaled
ReturnOf_NoCount(step, count, err) == Call("return", step, 0, 0, 0, 0, FALSE, err)

\* (mutant) lines 174 and 204 return 0 with the error, as line 170 does
ReturnOf_NoProgress(step, count, err) ==
    Call("return", step, 0, 0, IF err # NoErr THEN 0 ELSE count, 0, FALSE, err)

\* The return of one of the old-group steps, as an entry of the call list.
ReturnOf(step, count, err) == Call("return", step, 0, 0, count, 0, FALSE, err)

\* lines 116-126, called at line 65 on controller.FilterActiveReplicaSets(oldRSs);
\* the old replica sets come in any order
reconcileOldReplicaSets ==
    /\ pc = "reconcileOld"
    /\ \E o \in AllOrders :
         LET filtered == FilterActiveReplicaSets([k \in OldIds |-> Snapshot(o[k])])
             oldPodsCount == GetReplicaCountForReplicaSets(filtered)
         IN IF ~CanScaleDownOld(oldPodsCount, rollout, newRS)
            THEN /\ AfterOld(calls, FALSE, NoErr)
                 /\ UNCHANGED <<oldRSs, idx>>
            ELSE /\ oldRSs' = filtered
                 /\ idx' = 0
                 /\ pc' = "cleanupUnhealthy"
                 /\ UNCHANGED <<calls, result>>
    /\ UNCHANGED <<cluster, cleanupCount, scaledDownCount, prevRun>>

\* (mutant) line 177 left out: the slice handed on keeps the replica set as
\* it was before the eviction
cleanupUnhealthyReplicas_StaleSlice ==
    /\ pc = "cleanupUnhealthy"
    /\ IF idx = 0
       THEN \* lines 151-155
            /\ oldRSs' = SortForEviction(oldRSs)
            /\ idx' = 1
            /\ cleanupCount' = 0
            /\ UNCHANGED <<oldStore, calls, pc, result>>
       ELSE IF idx > Len(oldRSs)
       THEN \* line 179, and lines 135-138 of the caller
            /\ calls' = Append(calls, ReturnOf("evict", cleanupCount, NoErr))
            /\ pc' = "scaleDownOld"
            /\ idx' = 0
            /\ UNCHANGED <<oldStore, oldRSs, cleanupCount, result>>
       ELSE LET targetRS == oldRSs[idx]
                evicted == targetRS.replicas - targetRS.available
                newReplicasCount == targetRS.available
                scale(err) == Call("scale", "evict", targetRS.id, targetRS.replicas,
                                   newReplicasCount, targetRS.available,
                                   err = NoErr /\ ScaleChanged(targetRS, newReplicasCount), err)
            IN IF targetRS.replicas = 0 \/ targetRS.replicas = targetRS.available
               THEN \* lines 157-165: continue
                    /\ idx' = idx + 1
                    /\ UNCHANGED <<oldStore, oldRSs, cleanupCount, calls, pc, result>>
               ELSE IF InvalidScaleDown(targetRS, newReplicasCount)
               THEN \* lines 169-171: return nil, 0, fmt.Errorf(...)
                    /\ oldRSs' = <<>>
                    /\ cleanupCount' = 0
                    /\ idx' = 0
                    /\ LET ret == OnEvictionError("ErrInvalidScaleDown")
                       IN AfterOld(calls \o
                            <<Call("invalidScaleDown", "evict", targetRS.id, targetRS.replicas,
                                   newReplicasCount, targetRS.available, FALSE,
                                   "ErrInvalidScaleDown"),
                              ReturnOf("evict", 0, "ErrInvalidScaleDown")>>,
                            ret.scaledDown, ret.err)
                    /\ UNCHANGED oldStore
               ELSE \* lines 172-177
                    \/ /\ oldRSs' = <<>>
                       /\ idx' = 0
                       /\ LET ret == OnEvictionError("ErrScale")
                          IN AfterOld(calls \o <<scale("ErrScale"),
                                                 ReturnOf("evict", cleanupCount, "ErrScale")>>,
                                      ret.scaledDown, ret.err)
                       /\ UNCHANGED <<oldStore, cleanupCount>>
                    \/ /\ oldStore' = [oldStore EXCEPT ![targetRS.id].replicas = newReplicasCount]
                       /\ calls' = Append(calls, scale(NoErr))
                       /\ cleanupCount' = cleanupCount + evicted
                       /\ oldRSs' = oldRSs
                       /\ idx' = idx + 1
                       /\ UNCHANGED <<pc, result>>
    /\ UNCHANGED <<rollout, newRS, previewSel, activeSel, scaledDownCount, prevRun>>

\* lines 150-180, called at line 131; one step per iteration of the range loop
cleanupUnhealthyReplicas ==
    /\ pc = "cleanupUnhealthy"
    /\ IF idx = 0
       THEN \* lines 151-155
            /\ oldRSs' = SortForEviction(oldRSs)
            /\ idx' = 1
            /\ cleanupCount' = 0
            /\ UNCHANGED <<oldStore, calls, pc, result>>
       ELSE IF idx > Len(oldRSs)
       THEN \* line 179, and lines 135-138 of the caller
            /\ calls' = Append(calls, ReturnOf("evict", cleanupCount, NoErr))
            /\ pc' = "scaleDownOld"
            /\ idx' = 0
            /\ UNCHANGED <<oldStore, oldRSs, cleanupCount, result>>
       ELSE LET targetRS == oldRSs[idx]
                evicted == targetRS.replicas - targetRS.available
                newReplicasCount == targetRS.available
                scale(err) == Call("scale", "evict", targetRS.id, targetRS.replicas,
                                   newReplicasCount, targetRS.available,
                                   err = NoErr /\ ScaleChanged(targetRS, newReplicasCount), err)
            IN IF targetRS.replicas = 0 \/ targetRS.replicas = targetRS.available
               THEN \* lines 157-165: continue
                    /\ idx' = idx + 1
                    /\ UNCHANGED <<oldStore, oldRSs, cleanupCount, calls, pc, result>>
               ELSE IF InvalidScaleDown(targetRS, newReplicasCount)
               THEN \* lines 169-171: return nil, 0, fmt.Errorf(...)
                    /\ oldRSs' = <<>>
                    /\ cleanupCount' = 0
                    /\ idx' = 0
                    /\ LET ret == OnEvictionError("ErrInvalidScaleDown")
                       IN AfterOld(calls \o
                            <<Call("invalidScaleDown", "evict", targetRS.id, targetRS.replicas,
                                   newReplicasCount, targetRS.available, FALSE,
                                   "ErrInvalidScaleDown"),
                              ReturnOf("evict", 0, "ErrInvalidScaleDown")>>,
                            ret.scaledDown, ret.err)
                    /\ UNCHANGED oldStore
               ELSE \* lines 172-177
                    \/ /\ oldRSs' = <<>>
                       /\ idx' = 0
                       /\ LET ret == OnEvictionError("ErrScale")
                          IN AfterOld(calls \o <<scale("ErrScale"),
                                                 ReturnOf("evict", cleanupCount, "ErrScale")>>,
                                      ret.scaledDown, ret.err)
                       /\ UNCHANGED <<oldStore, cleanupCount>>
                    \/ /\ oldStore' = [oldStore EXCEPT ![targetRS.id].replicas = newReplicasCount]
                       /\ calls' = Append(calls, scale(NoErr))
                       /\ cleanupCount' = cleanupCount + evicted
                       /\ oldRSs' = [oldRSs EXCEPT ![idx] = ScaleUpdated(targetRS, newReplicasCount)]
                       /\ idx' = idx + 1
                       /\ UNCHANGED <<pc, result>>
    /\ UNCHANGED <<rollout, newRS, previewSel, activeSel, scaledDownCount, prevRun>>

\* lines 183-211, called at line 139 on allRSs = append(oldRSs, newRS); one
\* step per iteration of the range loop.  Lines 143-146 of the caller follow
\* its return.
scaleDownOldReplicaSetsForBlueGreen ==
    /\ pc = "scaleDownOld"
    /\ IF idx = 0
       THEN LET allRSs == Append(oldRSs, [id |-> 0, replicas |-> newRS.replicas,
                                          available |-> newRS.available])
                availablePodCount == GetAvailableReplicaCountForReplicaSets(allRSs)
            IN IF availablePodCount <= GetRolloutReplicasOrDefault(rollout)
               THEN \* lines 185-188: cannot scale down
                    /\ scaledDownCount' = 0
                    /\ AfterOld(Append(calls, ReturnOf("down", 0, NoErr)),
                                cleanupCount + 0 > 0, NoErr)
                    /\ UNCHANGED <<oldStore, oldRSs, idx>>
               ELSE \* lines 191-193
                    /\ oldRSs' = SortForScaleDown(oldRSs)
                    /\ idx' = 1
                    /\ scaledDownCount' = 0
                    /\ UNCHANGED <<oldStore, calls, pc, result>>
       ELSE IF idx > Len(oldRSs)
       THEN \* line 210
            /\ AfterOld(Append(calls, ReturnOf("down", scaledDownCount, NoErr)),
                        cleanupCount + scaledDownCount > 0, NoErr)
            /\ UNCHANGED <<oldStore, oldRSs, idx, scaledDownCount>>
       ELSE LET targetRS == oldRSs[idx]
                scaleDownCount == targetRS.replicas
                newReplicasCount == 0
                scale(err) == Call("scale", "down", targetRS.id, targetRS.replicas,
                                   newReplicasCount, targetRS.available,
                                   err = NoErr /\ ScaleChanged(targetRS, newReplicasCount), err)
            IN IF targetRS.replicas = 0
               THEN \* lines 195-198: continue
                    /\ idx' = idx + 1
                    /\ UNCHANGED <<oldStore, oldRSs, scaledDownCount, calls, pc, result>>
               ELSE \* lines 199-207
                    \/ /\ LET ret == OnScaleDownError("ErrScale")
                          IN AfterOld(calls \o <<scale("ErrScale"),
                                                 ReturnOf("down", scaledDownCount, "ErrScale")>>,
                                      ret.scaledDown, ret.err)
                       /\ UNCHANGED <<oldStore, oldRSs, idx, scaledDownCount>>
                    \/ /\ oldStore' = [oldStore EXCEPT ![targetRS.id].replicas = newReplicasCount]
                       /\ calls' = Append(calls, scale(NoErr))
                       /\ scaledDownCount' = scaledDownCount + scaleDownCount
                       /\ idx' = idx + 1
                       /\ UNCHANGED <<oldRSs, pc, result>>
    /\ UNCHANGED <<rollout, newRS, previewSel, activeSel, cleanupCount, prevRun>>

\* lines 73-77: conditions.RolloutComplete(r, &r.Status) answers either way;
\* c.cleanupRollouts(oldRSs, r) runs when it answers true
cleanupRollouts ==
    /\ pc = "rolloutComplete"
    /\ \/ /\ calls' = Append(calls, SimpleCall("rolloutComplete", FALSE, NoErr))
          /\ pc' = "syncStatus"
          /\ UNCHANGED result
       \/ Fail(Append(calls, SimpleCall("rolloutComplete", TRUE, NoErr)),
               SimpleCall("cleanup", FALSE, "ErrCleanup"))
       \/ /\ calls' = calls \o <<SimpleCall("rolloutComplete", TRUE, NoErr),
                                 SimpleCall("cleanup", TRUE, NoErr)>>
          /\ pc' = "syncStatus"
          /\ UNCHANGED result
    /\ UNCHANGED <<cluster, locals, prevRun>>

\* lines 39, 48, 53, 62, 70, 79: return c.syncRolloutStatus(allRSs, newRS, previewSvc, activeSvc, r)
syncRolloutStatus ==
    /\ pc = "syncStatus"
    /\ \/ Fail(calls, SimpleCall("syncStatus", FALSE, "ErrSyncStatus"))
       \/ /\ calls' = Append(calls, SimpleCall("syncStatus", FALSE, NoErr))
          /\ result' = NoErr
          /\ pc' = "done"
    /\ UNCHANGED <<cluster, locals, prevRun>>

(***************************************************************************)
(* Between passes.                                                         *)
(***************************************************************************)
ResetPass ==
    /\ pc' = "idle"
    /\ calls' = <<>>
    /\ result' = "pending"
    /\ oldRSs' = <<>>
    /\ idx' = 0
    /\ cleanupCount' = 0
    /\ scaledDownCount' = 0

\* The pass returned to the control loop, which triggers the next one later.
Return ==
    /\ pc = "done"
    /\ ResetPass
    /\ UNCHANGED <<cluster, prevRun>>

\* The cluster runtime reports another available count for a replica set.
SetAvailable ==
    /\ pc = "idle"
    /\ \/ \E n \in Counts : newRS' = [newRS EXCEPT !.available = n] /\ UNCHANGED oldStore
       \/ \E id \in OldIds, n \in Counts :
              oldStore' = [oldStore EXCEPT ![id].available = n] /\ UNCHANGED newRS
    /\ UNCHANGED <<rollout, previewSel, activeSel, pc, locals, calls, result, prevRun>>

\* The user edits spec.replicas of the rollout.
SetRolloutReplicas ==
    /\ pc = "idle"
    /\ \E n \in Counts : rollout' = [rollout EXCEPT !.replicas = n]
    /\ UNCHANGED <<newRS, oldStore, previewSel, activeSel, pc, locals, calls, result, prevRun>>

\* lines 213-227: the patch {"status": {"verifyingPreview": true}}
setVerifyingPreview ==
    /\ pc = "idle"
    /\ rollout.previewService # ""
    /\ rollout' = [rollout EXCEPT !.verifyingPreview = "true"]
    /\ UNCHANGED <<newRS, oldStore, previewSel, activeSel, pc, locals, calls, result, prevRun>>

\* The verification signal clears the gate.
ClearVerifyingPreview ==
    /\ pc = "idle"
    /\ rollout.verifyingPreview = "true"
    /\ rollout' = [rollout EXCEPT !.verifyingPreview = "false"]
    /\ UNCHANGED <<newRS, oldStore, previewSel, activeSel, pc, locals, calls, result, prevRun>>

Pass ==
    \/ getAllReplicaSetsAndSyncRevision
    \/ getPreviewAndActiveServices
    \/ reconcileNewReplicaSet
    \/ reconcilePreviewService
    \/ VerifyGate
    \/ reconcileActiveService
    \/ reconcileOldReplicaSets
    \/ cleanupUnhealthyReplicas
    \/ scaleDownOldReplicaSetsForBlueGreen
    \/ cleanupRollouts
    \/ syncRolloutStatus

Next ==
    \/ Pass
    \/ Return
    \/ SetAvailable
    \/ SetRolloutReplicas
    \/ setVerifyingPreview
    \/ ClearVerifyingPreview

Spec == Init /\ [][Next]_vars

(***************************************************************************)
(* Two passes in succession with nothing outside the core changing any     *)
(* state between them: the first pass from any cluster state, then, if no  *)
(* collaborator failed in it, the second.  prevRun tells the second pass   *)
(* how the first one ended: "ramped" (it scaled the new replica set up to  *)
(* the count the ramp function answered), "mutated" (it changed another    *)
(* desired count or a selector) or "quiet" (it changed nothing).           *)
(***************************************************************************)
ReturnTracked ==
    /\ pc = "done"
    /\ prevRun = "none"
    /\ \A k \in DOMAIN calls :
          calls[k].err = NoErr \/ calls[k].op \in {"return", "invalidScaleDown"}
    /\ prevRun' = IF \E k \in DOMAIN calls : calls[k].op = "ramp"
                  THEN "ramped"
                  ELSE IF \E k \in DOMAIN calls :
                             /\ calls[k].changed
                             /\ calls[k].op \in {"scale", "previewCutover", "activeCutover"}
                       THEN "mutated" ELSE "quiet"
    /\ ResetPass
    /\ UNCHANGED cluster

NextTwice ==
    \/ Pass
    \/ ReturnTracked

SpecTwice == Init /\ [][NextTwice]_vars

(***************************************************************************)
(* Reading the call list.                                                  *)
(***************************************************************************)
Indices == DOMAIN calls

\* Scale-And-Record calls of the Unhealthy Eviction Step / the Safe Scale-Down Step
EvictCalls == {k \in Indices : calls[k].op = "scale" /\ calls[k].step = "evict"}
DownCalls == {k \in Indices : calls[k].op = "scale" /\ calls[k].step = "down"}
NewCalls == {k \in Indices : calls[k].op = "scale" /\ calls[k].step = "new"}

\* The step returned (with or without an error)
Returned(step) == \E k \in Indices : calls[k].op = "return" /\ calls[k].step = step
ReturnEntry(step) ==
    calls[CHOOSE k \in Indices : calls[k].op = "return" /\ calls[k].step = step]

\* An entry is a collaborator call that returned an error
IsCollaboratorCall(c) == c.op \notin {"return", "invalidScaleDown", "verifyGate", "rolloutComplete"}
CollaboratorError(c) == IsCollaboratorCall(c) /\ c.err # NoErr

\* A call that changed a desired count or a selector
Mutation(c) == c.changed /\ c.op \in {"scale", "previewCutover", "activeCutover"}

Called(op) == \E k \in Indices : calls[k].op = op
Changed(op) == \E k \in Indices : calls[k].op = op /\ calls[k].changed

(***************************************************************************)
(* C1  Capacity safety: once the Safe Scale-Down Step has returned, either *)
(* it changed no old replica set's desired count, or the available         *)
(* replicas of the replica sets it did not scale to 0, summed over the new *)
(* and all old replica sets, are at least the rollout's desired replicas.  *)
(***************************************************************************)
ZeroedByScaleDown == {calls[k].rs : k \in {j \in DownCalls : calls[j].changed}}

SurvivingAvailable ==
    newRS.available
      + SumOver([id \in OldIds |-> IF id \in ZeroedByScaleDown THEN 0
                                   ELSE oldStore[id].available], OldIds)

C1_CapacitySafety ==
    Returned("down") =>
        \/ \A id \in OldIds : id \notin ZeroedByScaleDown
        \/ SurvivingAvailable >= rollout.replicas

\* the step zeroed every old replica set and exactly the desired capacity is left
C1_Witness ==
    /\ Returned("down")
    /\ ZeroedByScaleDown = OldIds
    /\ \A id \in OldIds : oldStore[id].replicas = 0 /\ oldStore[id].available > 0
    /\ rollout.replicas > 0
    /\ SurvivingAvailable = rollout.replicas

(***************************************************************************)
(* C2  Idempotence.  As stated: the second of two passes in succession     *)
(* (nothing outside the core changed in between) changes no desired count, *)
(* switches no selector and invokes no Cleanup.  Stated here for a first   *)
(* pass in which no collaborator failed and which did not depend on the    *)
(* ramp function.                                                          *)
(***************************************************************************)
C2_IdempotenceAsStated ==
    prevRun \in {"quiet", "mutated"} =>
        /\ \A k \in Indices : ~Mutation(calls[k])
        /\ ~Called("cleanup")

(***************************************************************************)
(* C2, amended: when the first pass met no collaborator error and changed  *)
(* no desired count and no selector, the second pass changes none either,  *)
(* and ends with Status Sync unless a collaborator fails in it.            *)
(***************************************************************************)
C2_Idempotence ==
    prevRun = "quiet" =>
        /\ \A k \in Indices : ~Mutation(calls[k])
        /\ pc = "done" =>
              \/ \E k \in Indices : CollaboratorError(calls[k])
              \/ calls[Len(calls)].op = "syncStatus"

\* a second pass after a quiet one that went through the old replica sets,
\* invoked Cleanup and ended with Status Sync
C2_Witness ==
    /\ prevRun = "quiet"
    /\ pc = "done"
    /\ result = NoErr
    /\ Returned("old")
    /\ Called("cleanup")

(***************************************************************************)
(* C3  Gate precedence.  As stated: in a pass that starts with             *)
(* status.verifyingPreview = true, a preview selector configured and the   *)
(* preview selector bound to the new revision, no step repoints the active *)
(* selector or lowers the desired count of an old replica set.             *)
(***************************************************************************)
\* the pass started with these inputs (the preview selector was bound before it)
GateInputs ==
    /\ rollout.verifyingPreview = "true"
    /\ rollout.previewService # ""
    /\ previewSel = "new"
    /\ ~Changed("previewCutover")

NoCutoverNoScaleDown ==
    /\ activeSel' = activeSel
    /\ \A id \in OldIds : oldStore'[id].replicas >= oldStore[id].replicas

C3_GatePrecedenceAsStated == [][GateInputs => NoCutoverNoScaleDown]_vars

(***************************************************************************)
(* C3, amended: the same, for a pass that also starts with the active      *)
(* selector carrying the revision key (the third condition of the gate).   *)
(***************************************************************************)
C3_GatePrecedence ==
    [][GateInputs /\ activeSel # "none" => NoCutoverNoScaleDown]_vars

\* the gate held a pass back that had an active selector to repoint and
\* surplus old replicas to scale down
C3_Witness ==
    /\ GateInputs
    /\ activeSel = "old"
    /\ IsSaturated(rollout, newRS)
    /\ \E id \in OldIds : oldStore[id].replicas > 0 /\ oldStore[id].available > 0
    /\ Changed("verifyGate")
    /\ pc = "done"
    /\ result = NoErr

(***************************************************************************)
(* C4  Single mutating step per pass: at most one of ScaleNewUp,           *)
(* PreviewCutover, ActiveCutover, ScaleOldDown and Cleanup changes state   *)
(* in a pass, and a pass in which ScaleOldDown changed an old replica      *)
(* set's desired count does not invoke Cleanup.                            *)
(***************************************************************************)
OldScaled == \E k \in EvictCalls \cup DownCalls : calls[k].changed
NewScaled == \E k \in NewCalls : calls[k].changed

StepsThatChanged ==
    (IF NewScaled THEN {"ScaleNewUp"} ELSE {})
      \cup (IF Changed("previewCutover") THEN {"PreviewCutover"} ELSE {})
      \cup (IF Changed("activeCutover") THEN {"ActiveCutover"} ELSE {})
      \cup (IF OldScaled THEN {"ScaleOldDown"} ELSE {})
      \cup (IF Changed("cleanup") THEN {"Cleanup"} ELSE {})

C4_SingleMutatingStep ==
    /\ Cardinality(StepsThatChanged) <= 1
    /\ OldScaled => ~Called("cleanup")

(***************************************************************************)
(* C5  Collaborator error propagation: a collaborator error, other than    *)
(* one met by the unhealthy eviction, ends the pass at once and is what    *)
(* rolloutBlueGreen returns.                                               *)
(***************************************************************************)
C5_ErrorPropagation ==
    \A k \in Indices :
        CollaboratorError(calls[k]) /\ calls[k].step # "evict" =>
            /\ pc = "done"
            /\ result = calls[k].err
            /\ \A j \in Indices : j > k => ~IsCollaboratorCall(calls[j])

(***************************************************************************)
(* C6  Fatal logic error in eviction: once the eviction met an old replica *)
(* set with more available than (non-zero) desired replicas, the pass      *)
(* makes no further Scale-And-Record or Cleanup call and returns that      *)
(* error.                                                                  *)
(***************************************************************************)
C6_LogicErrorFatal ==
    \A k \in Indices :
        calls[k].op = "invalidScaleDown" =>
            /\ \A j \in Indices : j > k => calls[j].op \notin {"scale", "cleanup"}
            /\ pc = "done" => result = "ErrInvalidScaleDown"

(***************************************************************************)
(* C7  Monotonic eviction.  As stated: every request of the eviction is    *)
(* for the replica set's available count, which is not above its prior     *)
(* desired count; a replica set with desired count 0 or equal to its       *)
(* available count is not handed to Scale-And-Record; and the total the    *)
(* step returns is the sum of (prior desired - available) over the replica *)
(* sets it evicted.                                                        *)
(***************************************************************************)
Evicted == {k \in EvictCalls : calls[k].err = NoErr}

EvictedTotal ==
    SumOver([k \in Evicted |-> calls[k].from - calls[k].avail], Evicted)

C7_MonotonicEvictionAsStated ==
    /\ \A k \in EvictCalls :
          /\ calls[k].to <= calls[k].from
          /\ calls[k].to = oldStore[calls[k].rs].available
          /\ calls[k].from # 0
          /\ calls[k].from # calls[k].avail
    /\ Returned("evict") => ReturnEntry("evict").to = EvictedTotal

(***************************************************************************)
(* C7, the part the code keeps: in every step of the eviction, a request   *)
(* handed to Scale-And-Record is for the replica set's available count and *)
(* not above its desired count before the step, a desired count only       *)
(* changes to the available count, a replica set with desired count 0 or   *)
(* equal to its available count is not handed over and keeps its count;    *)
(* the total returned is the sum over the evicted replica sets except      *)
(* where the step ended on the logic error of line 170, which returns 0.   *)
(***************************************************************************)
NewEntries == {k \in DOMAIN calls' : k > Len(calls)}

EvictionStep ==
    /\ \A k \in NewEntries :
          calls'[k].op = "scale" /\ calls'[k].step = "evict" =>
              /\ calls'[k].to <= oldStore[calls'[k].rs].replicas
              /\ calls'[k].to = oldStore[calls'[k].rs].available
              /\ calls'[k].from = oldStore[calls'[k].rs].replicas
    /\ \A id \in OldIds :
          /\ oldStore'[id].replicas # oldStore[id].replicas =>
                /\ oldStore'[id].replicas = oldStore[id].available
                /\ oldStore'[id].replicas <= oldStore[id].replicas
          /\ oldStore[id].replicas \in {0, oldStore[id].available} =>
                /\ oldStore'[id].replicas = oldStore[id].replicas
                /\ \A k \in NewEntries : calls'[k].op = "scale" => calls'[k].rs # id

EvictionReturn ==
    Returned("evict") =>
        ReturnEntry("evict").to =
            IF ReturnEntry("evict").err = "ErrInvalidScaleDown" THEN 0 ELSE EvictedTotal

C7_MonotonicEviction ==
    [][(pc = "cleanupUnhealthy" => EvictionStep) /\ EvictionReturn']_vars

\* the eviction evicted one old replica set, passed one over and returned
C7_Witness ==
    /\ Returned("evict")
    /\ ReturnEntry("evict").err = NoErr
    /\ ReturnEntry("evict").to = 2
    /\ Cardinality(Evicted) = 1
    /\ \E id \in OldIds : oldStore[id].replicas = oldStore[id].available
                            /\ oldStore[id].replicas > 0
                            /\ \A k \in EvictCalls : calls[k].rs # id

(***************************************************************************)
(* C8  Oldest-first ordering: the Scale-And-Record calls of the eviction   *)
(* within a pass are in strictly increasing creation time, and so are      *)
(* those of the safe scale-down.                                           *)
(***************************************************************************)
OldestFirst(ks) ==
    \A j, k \in ks : j < k => calls[j].rs < calls[k].rs

C8_OldestFirst == OldestFirst(EvictCalls) /\ OldestFirst(DownCalls)

\* A (created first, desired 2, available 1) was set to desired 1, then the
\* eviction looked at B (desired 2, available 2) and left it alone
C8_Witness ==
    /\ Returned("evict")
    /\ \E k \in EvictCalls : calls[k].rs = 1 /\ calls[k].from = 2 /\ calls[k].to = 1
    /\ \A k \in EvictCalls : calls[k].rs = 1
    /\ oldStore[1].replicas = 1
    /\ oldStore[2] = [replicas |-> 2, available |-> 2]
    /\ pc = "scaleDownOld"

(***************************************************************************)
(* C9  Strict step order: the calls of a pass come in the order            *)
(* ScaleNewUp, PreviewCutover (only with a preview service), VerifyGate,   *)
(* ActiveCutover, ScaleOldDown, Cleanup; after a step that reported a      *)
(* mutation, or the gate held, only Status Sync follows.                   *)
(***************************************************************************)
Rank(c) ==
    CASE c.op = "syncRevision" -> 0
      [] c.op = "getServices" -> 1
      [] c.op = "ramp" -> 2
      [] c.op = "scale" /\ c.step = "new" -> 2
      [] c.op = "previewCutover" -> 3
      [] c.op = "verifyGate" -> 4
      [] c.op = "activeCutover" -> 5
      [] c.op = "scale" /\ c.step \in {"evict", "down"} -> 6
      [] c.op = "invalidScaleDown" -> 6
      [] c.op = "return" -> 6
      [] c.op \in {"rolloutComplete", "cleanup"} -> 7
      [] c.op = "syncStatus" -> 8

\* the entry is a step's report of a mutation (of the gate: that it holds)
Reports(c) ==
    /\ c.changed
    /\ \/ c.op = "scale" /\ c.step = "new"
       \/ c.op \in {"previewCutover", "verifyGate", "activeCutover"}
       \/ c.op = "return" /\ c.step = "old"

C9_StrictStepOrder ==
    /\ \A j, k \in Indices : j < k => Rank(calls[j]) <= Rank(calls[k])
    /\ \A j, k \in Indices :
          j < k /\ Reports(calls[j]) /\ Rank(calls[j]) < Rank(calls[k]) =>
              calls[k].op = "syncStatus"
    /\ Called("previewCutover") \/ Called("verifyGate") => ~PreviewSvcIsNil
    /\ Changed("activeCutover") => ~NewScaled /\ ~Changed("previewCutover")
    /\ OldScaled => /\ ~NewScaled
                    /\ ~Changed("previewCutover")
                    /\ ~Changed("activeCutover")
                    /\ ~Changed("verifyGate")

\* a pass that attempted every step and ended with Status Sync
C9_Witness ==
    /\ pc = "done"
    /\ result = NoErr
    /\ Called("previewCutover")
    /\ Called("verifyGate")
    /\ Called("activeCutover")
    /\ Returned("old")
    /\ Called("cleanup")
    /\ Called("syncStatus")

(***************************************************************************)
(* C10  Status sync always runs: a pass in which no collaborator returned  *)
(* an error ends with exactly one Status Sync call, its last call, and     *)
(* returns what that call returned; no pass calls anything after Status    *)
(* Sync.                                                                   *)
(***************************************************************************)
SyncCalls == {k \in Indices : calls[k].op = "syncStatus"}

C10_StatusSyncAlwaysRuns ==
    /\ \A k \in SyncCalls : k = Len(calls)
    /\ pc = "done" /\ (\A k \in Indices : ~CollaboratorError(calls[k])) =>
          /\ Cardinality(SyncCalls) = 1
          /\ calls[Len(calls)].op = "syncStatus"
          /\ result = calls[Len(calls)].err

\* a pass stopped by the held gate ended with Status Sync
C10_Witness ==
    /\ pc = "done"
    /\ result = NoErr
    /\ Changed("verifyGate")
    /\ Cardinality(SyncCalls) = 1

(***************************************************************************)
(* C11  Preview Verification Gate predicate: reconcileVerifyingPreview     *)
(* returns true exactly when the rollout names a preview service, the      *)
(* active selector carries the revision key and status.verifyingPreview is *)
(* present and true, false for every other combination; and the gate step  *)
(* of a pass reports that value and changes nothing.                       *)
(***************************************************************************)
GateHolds(activeSelector, r) ==
    /\ r.previewService # ""
    /\ activeSelector # "none"
    /\ r.verifyingPreview = "true"

GateStep ==
    /\ calls' = Append(calls, SimpleCall("verifyGate", GateHolds(activeSel, rollout), NoErr))
    /\ cluster' = cluster
    /\ result' = result

C11_GatePredicate ==
    [][/\ \A sel \in SelectorValues :
             \A r \in [replicas : {rollout.replicas}, previewService : PreviewNames,
                       verifyingPreview : TriState] :
                 reconcileVerifyingPreview(sel, r) = GateHolds(sel, r)
       /\ pc = "verifyingPreview" => GateStep]_vars

\* the gate let a pass through whose status.verifyingPreview was absent
C11_Witness ==
    /\ Called("verifyGate")
    /\ ~Changed("verifyGate")
    /\ rollout.verifyingPreview = "nil"
    /\ rollout.previewService # ""
    /\ previewSel = "new"
    /\ activeSel = "old"
    /\ pc = "activeService"

(***************************************************************************)
(* C12  New Group Scaler cases: reconcileNewReplicaSet (a) calls nothing   *)
(* and returns false when the new replica set's desired count equals the   *)
(* rollout's; (b) when it is greater, asks Scale-And-Record for exactly    *)
(* the rollout's count, without the ramp function, and the count changes;  *)
(* (c) when it is smaller, asks Scale-And-Record for exactly the count the *)
(* ramp function answered; in (b) and (c) it returns the changed flag of   *)
(* Scale-And-Record, and a ramp error is returned with no scaling.         *)
(***************************************************************************)
AddedCalls == SubSeq(calls', Len(calls) + 1, Len(calls'))

\* reconcileNewReplicaSet returned (scaledUp, nil) to line 34
NewScalerReturned(scaledUp) ==
    /\ result' = result
    /\ pc' = IF scaledUp THEN "syncStatus"
             ELSE IF rollout.previewService = "" THEN "activeService" ELSE "previewService"

\* the last added call is Scale-And-Record of the new replica set for count n
ScaleAndRecordAsked(n) ==
    LET c == AddedCalls[Len(AddedCalls)] IN
    /\ c.op = "scale" /\ c.step = "new" /\ c.from = newRS.replicas /\ c.to = n
    /\ IF c.err = NoErr
       THEN /\ newRS' = [newRS EXCEPT !.replicas = n]
            /\ NewScalerReturned(c.changed)
       ELSE /\ newRS' = newRS
            /\ pc' = "done"
            /\ result' = c.err

NewScalerStep ==
    /\ newRS.replicas = rollout.replicas =>
          /\ AddedCalls = <<>>
          /\ newRS' = newRS
          /\ NewScalerReturned(FALSE)
    /\ newRS.replicas > rollout.replicas =>
          /\ Len(AddedCalls) = 1
          /\ ScaleAndRecordAsked(rollout.replicas)
          /\ AddedCalls[1].err = NoErr => AddedCalls[1].changed
    /\ newRS.replicas < rollout.replicas =>
          /\ AddedCalls[1].op = "ramp"
          /\ IF AddedCalls[1].err # NoErr
             THEN /\ Len(AddedCalls) = 1
                  /\ newRS' = newRS
                  /\ pc' = "done"
                  /\ result' = AddedCalls[1].err
             ELSE /\ Len(AddedCalls) = 2
                  /\ ScaleAndRecordAsked(AddedCalls[1].to)
    /\ UNCHANGED <<rollout, oldStore, previewSel, activeSel>>

C12_NewGroupScaler == [][pc = "reconcileNew" => NewScalerStep]_vars

\* the over-provisioned new replica set (desired 2, rollout 1) was scaled
\* straight to 1 and the scaler returned true
C12_Witness ==
    /\ rollout.replicas = 1
    /\ newRS.replicas = 1
    /\ \E k \in NewCalls : calls[k].from = 2 /\ calls[k].to = 1 /\ calls[k].changed
    /\ ~Called("ramp")
    /\ pc = "syncStatus"

(***************************************************************************)
(* C13  Safe Scale-Down result: scaleDownOldReplicaSetsForBlueGreen does   *)
(* nothing and returns 0 when the available replicas of the replica sets   *)
(* it is given are not more than the rollout's desired replicas; when they *)
(* are more and no apply fails, every old replica set with a non-zero      *)
(* desired count is scaled to 0, those at 0 are not touched, and the count *)
(* returned is the sum of the desired counts the old replica sets had      *)
(* before the step.                                                        *)
(***************************************************************************)
\* the available replicas of allRSs, line 184
AvailableGiven ==
    newRS.available
      + SumOver([k \in DOMAIN oldRSs |-> oldRSs[k].available], DOMAIN oldRSs)

\* the desired counts of the old replica sets given to the step
DesiredGiven ==
    SumOver([k \in DOMAIN oldRSs |-> oldRSs[k].replicas], DOMAIN oldRSs)

\* the entry is the step's return of count, with no error
DownReturned(c, count) ==
    c.op = "return" /\ c.step = "down" /\ c.to = count /\ c.err = NoErr

\* the step starts: it has not yet sorted its list and has called nothing
ScaleDownStarts == pc = "scaleDownOld" /\ idx = 0

SafeScaleDownNoOp ==
    ScaleDownStarts /\ AvailableGiven <= rollout.replicas =>
        /\ SubSeq(calls', 1, Len(calls)) = calls
        /\ DownReturned(calls'[Len(calls) + 1], 0)
        /\ pc' # "scaleDownOld"
        /\ oldStore' = oldStore

\* allRSs of line 138 leaves out the old replica sets that were filtered out
\* as inactive; when the step does nothing there is no old replica set left
\* with a desired count, so counting their available replicas in would not
\* change what the step does
NoOpLeavesNothing ==
    ScaleDownStarts /\ AvailableGiven <= rollout.replicas =>
        \A id \in OldIds : oldStore[id].replicas = 0

SafeScaleDownCalls ==
    pc = "scaleDownOld" =>
        \A k \in (DOMAIN calls') \ DOMAIN calls :
            calls'[k].op = "scale" =>
                /\ AvailableGiven > rollout.replicas
                /\ calls'[k].step = "down"
                /\ calls'[k].to = 0
                /\ calls'[k].from # 0
                /\ calls'[k].from = oldStore[calls'[k].rs].replicas

\* the desired counts of the old replica sets when the step started with
\* surplus: those still to be scaled plus those scaled so far
C13_InStep ==
    pc = "scaleDownOld" /\ idx > 0 =>
        /\ AvailableGiven > rollout.replicas
        /\ \A k \in DOMAIN oldRSs :
              k < idx => oldStore[oldRSs[k].id].replicas = 0
        /\ \A k \in DOMAIN oldRSs :
              k >= idx => oldStore[oldRSs[k].id].replicas = oldRSs[k].replicas
        /\ scaledDownCount =
              SumOver([k \in DOMAIN oldRSs |-> IF k < idx THEN oldRSs[k].replicas ELSE 0],
                      DOMAIN oldRSs)
        /\ \A k \in DownCalls :
              calls[k].err = NoErr /\ calls[k].from # 0 /\ calls[k].to = 0

SafeScaleDownReturn ==
    pc = "scaleDownOld" /\ idx > Len(oldRSs) /\ idx > 0 =>
        /\ DownReturned(calls'[Len(calls) + 1], DesiredGiven)
        /\ \A k \in DOMAIN oldRSs : oldStore'[oldRSs[k].id].replicas = 0
        /\ {calls[k].rs : k \in DownCalls} = {oldRSs[k].id : k \in {j \in DOMAIN oldRSs : oldRSs[j].replicas # 0}}

C13_SafeScaleDown ==
    [][/\ SafeScaleDownNoOp
       /\ NoOpLeavesNothing
       /\ SafeScaleDownCalls
       /\ C13_InStep
       /\ SafeScaleDownReturn]_vars

\* new desired 2 available 2, old X desired 2 available 2, rollout 2: X was
\* set to 0 and the step returned 2
C13_Witness ==
    /\ rollout.replicas = 2
    /\ newRS = [replicas |-> 2, available |-> 2]
    /\ oldStore[1] = [replicas |-> 0, available |-> 2]
    /\ oldStore[2] = [replicas |-> 0, available |-> 0]
    /\ \E k \in DownCalls : calls[k].rs = 1 /\ calls[k].from = 2 /\ calls[k].to = 0
    /\ Cardinality(DownCalls) = 1
    /\ Returned("down")
    /\ DownReturned(ReturnEntry("down"), 2)

(***************************************************************************)
(* C14  Partial-progress errors: when Scale-And-Record fails on an old     *)
(* replica set during the eviction or the safe scale-down, the step makes  *)
(* no Scale-And-Record call for a later replica set, returns the error     *)
(* with the count accumulated from the replica sets before the failing     *)
(* one, and the desired counts applied to those stay applied.              *)
(***************************************************************************)
\* the calls of the step that succeeded before call k
AppliedBefore(k) ==
    {j \in Indices : /\ j < k
                     /\ calls[j].op = "scale"
                     /\ calls[j].step = calls[k].step
                     /\ calls[j].err = NoErr}

AccumulatedBefore(k) ==
    SumOver([j \in AppliedBefore(k) |-> calls[j].from - calls[j].to], AppliedBefore(k))

FailedApplies ==
    {k \in Indices : /\ calls[k].op = "scale"
                     /\ calls[k].step \in {"evict", "down"}
                     /\ calls[k].err # NoErr}

C14_PartialProgress ==
    \A k \in FailedApplies :
        /\ k + 1 \in Indices
        /\ calls[k + 1].op = "return"
        /\ calls[k + 1].step = calls[k].step
        /\ calls[k + 1].err = calls[k].err
        /\ calls[k + 1].to = AccumulatedBefore(k)
        /\ \A j \in Indices : j > k => calls[j].op # "scale"
        /\ \A j \in AppliedBefore(k) : oldStore[calls[j].rs].replicas = calls[j].to

\* the safe scale-down set the older replica set from 2 to 0, failed on the
\* younger one and returned the error with the count 2
C14_Witness ==
    /\ \E k \in FailedApplies :
          /\ calls[k].step = "down"
          /\ calls[k].rs = 2
          /\ AppliedBefore(k) # {}
          /\ AccumulatedBefore(k) = 2
    /\ oldStore[1].replicas = 0
    /\ oldStore[2].replicas > 0
    /\ Returned("down")
    /\ ReturnEntry("down").to = 2
    /\ ReturnEntry("down").err = "ErrScale"

(***************************************************************************)
(* C15  Cleanup gating: Cleanup is invoked in a pass only if ScaleNewUp,   *)
(* PreviewCutover, ActiveCutover and ScaleOldDown all reported no          *)
(* mutation, the gate was not held and the Completion Predicate answered   *)
(* true; when Cleanup returns an error the pass returns that error and     *)
(* does not invoke Status Sync; when the Completion Predicate answers      *)
(* false Cleanup is not invoked and the pass goes to Status Sync.          *)
(***************************************************************************)
CompletionAnswers == {k \in Indices : calls[k].op = "rolloutComplete"}

C15_CleanupGating ==
    /\ \A k \in Indices :
          calls[k].op = "cleanup" =>
              /\ \A j \in Indices : j < k => ~Reports(calls[j])
              /\ \E j \in Indices : j < k /\ calls[j].op = "return" /\ calls[j].step = "old"
              /\ k > 1
              /\ calls[k - 1].op = "rolloutComplete"
              /\ calls[k - 1].changed
              /\ calls[k].err # NoErr =>
                    /\ pc = "done"
                    /\ result = calls[k].err
                    /\ k = Len(calls)
    /\ \A k \in CompletionAnswers :
          /\ calls[k].changed => k < Len(calls) /\ calls[k + 1].op = "cleanup"
          /\ ~calls[k].changed =>
                /\ ~Called("cleanup")
                /\ IF k = Len(calls) THEN pc = "syncStatus"
                   ELSE calls[k + 1].op = "syncStatus" /\ k + 1 = Len(calls)

\* a pass with a preview service went through every step, found the rollout
\* complete, and Cleanup failed: the pass returned its error without Status Sync
C15_Witness ==
    /\ pc = "done"
    /\ result = "ErrCleanup"
    /\ Called("verifyGate")
    /\ Called("activeCutover")
    /\ Returned("evict")
    /\ Returned("down")
    /\ calls[Len(calls)].op = "cleanup"
    /\ ~Called("syncStatus")

(***************************************************************************)
(* C16  Read-your-writes inside ScaleOldDown: the safe scale-down works on *)
(* the old replica sets as the eviction left them: a replica set evicted   *)
(* to 0 is not sent to Scale-And-Record again, one evicted to a non-zero   *)
(* count is zeroed from that count; when both steps succeed and there is   *)
(* surplus capacity, evicted plus scaled down equals the sum of the        *)
(* desired counts the old replica sets had when ScaleOldDown started; and  *)
(* when both steps succeed ScaleOldDown reports scaled exactly when that   *)
(* total is above 0.                                                       *)
(***************************************************************************)
OldScaleCalls(id) == {k \in EvictCalls \cup DownCalls : calls[k].rs = id}

\* the desired count of old replica set id when ScaleOldDown started
DesiredAtStart(id) ==
    IF OldScaleCalls(id) = {} THEN oldStore[id].replicas
    ELSE calls[CHOOSE k \in OldScaleCalls(id) : \A j \in OldScaleCalls(id) : k <= j].from

BothSucceeded ==
    /\ Returned("evict") /\ ReturnEntry("evict").err = NoErr
    /\ Returned("down") /\ ReturnEntry("down").err = NoErr

TotalReported == ReturnEntry("evict").to + ReturnEntry("down").to

C16_ReadYourWrites ==
    /\ \A k \in DownCalls :
          /\ calls[k].from = oldStore[calls[k].rs].replicas \/ calls[k].err = NoErr
          /\ \A j \in EvictCalls :
                calls[j].rs = calls[k].rs /\ calls[j].err = NoErr =>
                    /\ calls[j].to # 0
                    /\ calls[k].from = calls[j].to
    /\ BothSucceeded /\ AvailableGiven > rollout.replicas =>
          TotalReported = SumOver([id \in OldIds |-> DesiredAtStart(id)], OldIds)
    /\ BothSucceeded /\ Returned("old") =>
          ReturnEntry("old").changed = (TotalReported > 0)

\* an old replica set with desired 2 and available 1 was evicted to 1 and
\* then zeroed from 1: the total reported is 2 and ScaleOldDown reports scaled
C16_Witness ==
    /\ BothSucceeded
    /\ Returned("old")
    /\ ReturnEntry("old").changed
    /\ \E id \in OldIds :
          /\ \E j \in EvictCalls : calls[j].rs = id /\ calls[j].from = 2 /\ calls[j].to = 1
          /\ \E k \in DownCalls : calls[k].rs = id /\ calls[k].from = 1 /\ calls[k].to = 0
          /\ oldStore[id].replicas = 0
    /\ ReturnEntry("evict").to = 1
    /\ ReturnEntry("down").to = 1

(***************************************************************************)
(* C17  Saturation guard: in a pass where the new replica set is not       *)
(* saturated, or where the active old replica sets' desired counts sum to  *)
(* 0, reconcileOldReplicaSets makes no Scale-And-Record call for an old    *)
(* replica set, returns (false, nil), and leaves every old replica set's   *)
(* desired count as it was.                                                *)
(***************************************************************************)
GuardClosed ==
    \/ ~IsSaturated(rollout, newRS)
    \/ \A id \in OldIds : oldStore[id].replicas = 0

GuardStep ==
    pc = "reconcileOld" /\ GuardClosed =>
        /\ calls' = Append(calls, Call("return", "old", 0, 0, 0, 0, FALSE, NoErr))
        /\ oldStore' = oldStore
        /\ pc' = "rolloutComplete"
        /\ result' = result

\* old replica sets are scaled only in a pass that found the new one saturated
ScaledOnlyWhenSaturated ==
    EvictCalls \cup DownCalls # {} \/ Returned("evict") \/ Returned("down") =>
        IsSaturated(rollout, newRS)

C17_SaturationGuard == [][GuardStep /\ ScaledOnlyWhenSaturated']_vars

\* the new replica set has 1 of its 2 replicas available: the old replica
\* sets, both scaled up and available, were left alone
C17_Witness ==
    /\ rollout.replicas = 2
    /\ newRS = [replicas |-> 2, available |-> 1]
    /\ \A id \in OldIds : oldStore[id] = [replicas |-> 2, available |-> 2]
    /\ Returned("old")
    /\ ~ReturnEntry("old").changed
    /\ EvictCalls \cup DownCalls = {}
    /\ pc = "rolloutComplete"

(***************************************************************************)
(* C18  Old replica sets only shrink: the core never asks Scale-And-Record *)
(* for a desired count of an old replica set above its current one, so     *)
(* over any sequence of passes an old replica set's desired count never    *)
(* grows; and the core never changes an available count.                   *)
(***************************************************************************)
\* a step of the core (of a pass), as opposed to a step of its environment
CoreStep == pc # "idle" \/ pc' # "idle"

OldRequestsShrink ==
    \A k \in (DOMAIN calls') \ DOMAIN calls :
        calls'[k].op = "scale" /\ calls'[k].step \in {"evict", "down"} =>
            calls'[k].to <= oldStore[calls'[k].rs].replicas

C18_OldOnlyShrink ==
    [][/\ \A id \in OldIds : oldStore'[id].replicas <= oldStore[id].replicas
       /\ CoreStep =>
             /\ OldRequestsShrink
             /\ \A id \in OldIds : oldStore'[id].available = oldStore[id].available
             /\ newRS'.available = newRS.available]_vars

\* one pass took the older replica set from 1 to 0 and the younger one from
\* 2 to 0; their available counts are as the runtime reported them
C18_Witness ==
    /\ \E k \in DownCalls : calls[k].rs = 1 /\ calls[k].from = 1 /\ calls[k].to = 0
    /\ \E k \in EvictCalls : calls[k].rs = 2 /\ calls[k].from = 2 /\ calls[k].to = 1
    /\ \E k \in DownCalls : calls[k].rs = 2 /\ calls[k].from = 1 /\ calls[k].to = 0
    /\ oldStore = <<[replicas |-> 0, available |-> 1], [replicas |-> 0, available |-> 1]>>
    /\ pc = "done"

(***************************************************************************)
(* Passes re-triggered for ever, in an environment that settles: no        *)
(* collaborator returns an error, the rollout spec does not change, the    *)
(* cluster runtime brings available counts to the desired counts, and a    *)
(* held gate is cleared and not set again.                                 *)
(***************************************************************************)
NoCollaboratorError == \A k \in DOMAIN calls : ~CollaboratorError(calls[k])

PassLive == Pass /\ NoCollaboratorError'

\* The cluster runtime brings a replica set's available count to its desired count.
RuntimeSettles ==
    /\ pc = "idle"
    /\ \/ /\ newRS.available # newRS.replicas
          /\ newRS' = [newRS EXCEPT !.available = newRS.replicas]
          /\ UNCHANGED oldStore
       \/ \E id \in OldIds :
              /\ oldStore[id].available # oldStore[id].replicas
              /\ oldStore' = [oldStore EXCEPT ![id].available = oldStore[id].replicas]
              /\ UNCHANGED newRS
    /\ UNCHANGED <<rollout, previewSel, activeSel, pc, locals, calls, result, prevRun>>

NextLive ==
    \/ PassLive
    \/ Return
    \/ RuntimeSettles
    \/ ClearVerifyingPreview

\* A pass, once triggered, runs to its return and the next one is triggered;
\* the runtime and the verification signal act between passes.
SpecLive ==
    /\ Init
    /\ [][NextLive]_vars
    /\ WF_vars(PassLive)
    /\ WF_vars(Return)
    /\ SF_vars(RuntimeSettles)
    /\ SF_vars(ClearVerifyingPreview)

(***************************************************************************)
(* C19  Convergence: with passes re-triggered fairly, no collaborator      *)
(* error, a rollout spec that no longer changes, a runtime that brings     *)
(* available counts to desired counts and a gate that is cleared, the      *)
(* system reaches and stays in a state where the new replica set's desired *)
(* count is the rollout's, the active selector is bound to the new         *)
(* revision, every old replica set's desired count is 0, and no pass       *)
(* changes a desired count or a selector.                                  *)
(***************************************************************************)
Converged ==
    /\ newRS.replicas = rollout.replicas
    /\ activeSel = "new"
    /\ \A id \in OldIds : oldStore[id].replicas = 0

Quiet == \A k \in Indices : ~Mutation(calls[k])

=============================================================================
